---- MODULE Spec2Model ----
(***************************************************************************)
(* Model of the two screenshot scripts of enhanced-fix-hero-animation:     *)
(*   verify.py                                   (async variant, main)     *)
(*   jules-scratch/verification/verify_animation.py (sync variant, run)    *)
(* One process runs one of the scripts from start to exit; the filesystem  *)
(* survives the process, so a script can be run again.                     *)
(***************************************************************************)
EXTENDS Integers, Sequences, FiniteSets, TLC

VARIABLES
    variant,     \* which script this process runs: "async" or "sync"
    pc,          \* position: "enter", "body", "exit", "done"
    ip,          \* index of the next statement of the with-body
    inflight,    \* library calls issued and not yet returned
    exc,         \* the call whose exception is propagating, or "none"
    exitStatus,  \* exit status of the process, -1 while it runs
    driver,      \* the playwright driver process is running
    browsers,    \* number of browser processes running
    pages,       \* number of pages open
    url,         \* address the page shows
    doc,         \* document the page shows: a sequence of rows
    anim,        \* the page's animation has completed
    scrollY,     \* vertical scroll offset of the page, px
    elapsed,     \* ms elapsed in the wait in progress
    server,      \* an HTTP server is reachable at the target address
    fs,          \* filesystem: path -> file
    trace,       \* library calls issued by this process, in order
    writes,      \* paths this process opened for writing, in order
    captured,    \* the page state the screenshot of this process rendered
    runs,        \* number of processes started so far
    prev         \* the previous process: its variant, outcome and the
                 \* filesystem it left (the filesystem this one started on)

vars == << variant, pc, ip, inflight, exc, exitStatus, driver, browsers, pages,
           url, doc, anim, scrollY, elapsed, server, fs, trace, writes, captured,
           runs, prev >>

----------------------------------------------------------------------------
(* Bounds of the model *)

MaxRuns == 2

MaxRows == 2

RowPx == 1000

TickMs == 1000

----------------------------------------------------------------------------
(* Literals of the scripts *)

Variants == {"async", "sync"}

TargetUrl == "http://localhost:8000"

BlankUrl == "about:blank"

ScrollTarget == 1000

SleepSeconds == 2

TimeoutMs == 5000

ViewportPx == 720

OutputPath(v) ==
    IF v = "async" THEN "verification.png"
    ELSE "jules-scratch/verification/verification.png"

StrayPath == "verification-1.png"

Paths == {OutputPath("async"), OutputPath("sync"), StrayPath}

WaitMs(v) == IF v = "async" THEN SleepSeconds * 1000 ELSE TimeoutMs

WaitOp(v) == IF v = "async" THEN "sleep" ELSE "wait_for_timeout"

Steps(v) ==
    IF v = "async"
    THEN << "launch", "new_page", "goto", "evaluate", "sleep", "screenshot", "close" >>
    ELSE << "launch", "new_page", "goto", "wait_for_timeout", "screenshot", "close" >>

----------------------------------------------------------------------------
(* The page served at the target address and what the browser renders *)

\* A page of n identical sections, and a page of n different sections
Repeating(n) == [i \in 1..n |-> 0]

Distinct(n) == [i \in 1..n |-> i]

Docs == { Repeating(n) : n \in 0..MaxRows } \cup { Distinct(n) : n \in 0..MaxRows }

Min(a, b) == IF a < b THEN a ELSE b

Max(a, b) == IF a > b THEN a ELSE b

DocHeight(d) == Len(d) * RowPx

MaxScroll(d) == Max(0, DocHeight(d) - ViewportPx)

\* Variant: the scroll request has no effect
ScrollToNone(d, y) == 0

\* window.scrollTo clamps the requested offset to the scrollable range
ScrollTo(d, y) == Min(y, MaxScroll(d))

RECURSIVE Visible(_, _, _)
Visible(d, y, i) ==
    IF i > Len(d) THEN << >>
    ELSE LET top == (i - 1) * RowPx
             lo  == Max(y, top)
             hi  == Min(y + ViewportPx, top + RowPx)
         IN  IF lo < hi
             THEN << << d[i], lo - top, hi - top >> >> \o Visible(d, y, i + 1)
             ELSE Visible(d, y, i + 1)

Absent == [kind |-> "absent", rows |-> << >>, anim |-> FALSE]

Truncated == [kind |-> "truncated", rows |-> << >>, anim |-> FALSE]

Image(d, y, a) == [kind |-> "png", rows |-> Visible(d, y, 1), anim |-> a]

EmptyFs == [p \in Paths |-> Absent]

NoShot == [taken |-> FALSE, doc |-> << >>, anim |-> FALSE]

NoRun == [variant |-> "none", ok |-> FALSE, fs |-> EmptyFs, captured |-> NoShot]

----------------------------------------------------------------------------
(* Control flow of the with-body *)

\* Variant: calls are fired without being awaited
ReadyAlways == TRUE

\* A statement runs once every call issued before it has returned
Ready == inflight = {}

\* Variant: the exception is swallowed and the body goes on
OnRaiseSwallow(i) ==
    [pc |-> IF i > Len(Steps(variant)) THEN "exit" ELSE "body", ip |-> i]

\* Variant: the failed statement is tried again while attempts remain
OnRaiseRetry(i) ==
    IF Len(trace) <= Len(Steps(variant))
    THEN [pc |-> "body", ip |-> i - 1]
    ELSE [pc |-> "exit", ip |-> i]

\* Where control goes when an awaited call raises: nothing catches it
OnRaise(i) == [pc |-> "exit", ip |-> i]

\* Variant: an existing image is kept and a numbered file written beside it
WriteTargetFresh(v) ==
    IF fs[OutputPath(v)].kind = "absent" THEN OutputPath(v) ELSE StrayPath

\* Variant: both scripts write the path of verify.py
WriteTargetShared(v) == OutputPath("async")

\* The path handed to page.screenshot
WriteTarget(v) == OutputPath(v)

\* Variant: the wait also needs the animation to have completed
WaitDoneOnSignal == anim /\ elapsed = WaitMs(variant)

\* Variant: the wait ends as soon as the animation has completed
WaitDonePolling == anim \/ elapsed = WaitMs(variant)

\* The wait returns when its fixed delay has elapsed
WaitDone == elapsed = WaitMs(variant)

\* Variant: the browsers outlive the driver
StopDriverLeak(n) == n

\* Stopping the driver on leaving the with-block ends the browsers it launched
StopDriver(n) == 0

\* Variant: the exception is caught at top level
ExitCodeZero == IF exc = "none" THEN 0 ELSE 0

\* Exit status: an uncaught exception ends the interpreter with status 1
ExitCode == IF exc = "none" THEN 0 ELSE 1

Init ==
    /\ variant \in Variants
    /\ server \in BOOLEAN
    /\ pc = "enter"
    /\ ip = 1
    /\ inflight = {}
    /\ exc = "none"
    /\ exitStatus = -1
    /\ driver = FALSE
    /\ browsers = 0
    /\ pages = 0
    /\ url = BlankUrl
    /\ doc = << >>
    /\ anim = FALSE
    /\ scrollY = 0
    /\ elapsed = 0
    /\ fs = EmptyFs
    /\ trace = << >>
    /\ writes = << >>
    /\ captured = NoShot
    /\ runs = 1
    /\ prev = NoRun

\* `with sync_playwright() as playwright` / `async with async_playwright() as p`
Enter ==
    /\ pc = "enter"
    /\ driver' = TRUE
    /\ pc' = "body"
    /\ UNCHANGED << variant, ip, inflight, exc, exitStatus, browsers, pages, url,
                    doc, anim, scrollY, elapsed, server, fs, trace, writes, captured, runs,
                    prev >>

\* The next statement of the body issues its library call
Issue ==
    /\ pc = "body"
    /\ ip <= Len(Steps(variant))
    /\ Ready
    /\ inflight' = inflight \cup {Steps(variant)[ip]}
    /\ trace' = Append(trace, Steps(variant)[ip])
    /\ elapsed' = IF Steps(variant)[ip] = WaitOp(variant) THEN 0 ELSE elapsed
    /\ ip' = ip + 1
    /\ UNCHANGED << variant, pc, exc, exitStatus, driver, browsers, pages, url,
                    doc, anim, scrollY, server, fs, writes, captured, runs, prev >>

\* A call returns: control is back in the body, or past its last statement
Return(op) ==
    /\ pc = "body"
    /\ op \in inflight
    /\ inflight' = inflight \ {op}
    /\ exc' = exc
    /\ ip' = ip
    /\ pc' = IF ip > Len(Steps(variant)) THEN "exit" ELSE "body"

\* A call raises: the exception leaves the body
Raise(op) ==
    /\ pc = "body"
    /\ op \in inflight
    /\ inflight' = inflight \ {op}
    /\ exc' = op
    /\ pc' = OnRaise(ip).pc
    /\ ip' = OnRaise(ip).ip

\* browser = chromium.launch()
launch ==
    /\ \/ Return("launch") /\ browsers' = browsers + 1
       \/ Raise("launch") /\ browsers' = browsers
    /\ UNCHANGED << variant, exitStatus, driver, pages, url, doc, anim,
                    scrollY, elapsed, server, fs, trace, writes, captured, runs, prev >>

\* page = browser.new_page()
new_page ==
    /\ \/ /\ Return("new_page")
          /\ pages' = pages + 1
          /\ url' = BlankUrl
          /\ doc' = << >>
          /\ anim' = FALSE
          /\ scrollY' = 0
       \/ /\ Raise("new_page")
          /\ UNCHANGED << pages, url, doc, anim, scrollY >>
    /\ UNCHANGED << variant, exitStatus, driver, browsers, elapsed, server,
                    fs, trace, writes, captured, runs, prev >>

\* page.goto("http://localhost:8000")
goto ==
    /\ \/ /\ server
          /\ Return("goto")
          /\ \E d \in Docs : doc' = d
          /\ url' = TargetUrl
          /\ anim' = FALSE
          /\ scrollY' = 0
       \/ /\ Raise("goto")
          /\ UNCHANGED << url, doc, anim, scrollY >>
    /\ UNCHANGED << variant, exitStatus, driver, browsers, pages, elapsed,
                    server, fs, trace, writes, captured, runs, prev >>

\* page.evaluate("window.scrollTo(0, 1000)")
evaluate ==
    /\ \/ Return("evaluate") /\ scrollY' = ScrollTo(doc, ScrollTarget)
       \/ Raise("evaluate") /\ scrollY' = scrollY
    /\ UNCHANGED << variant, exitStatus, driver, browsers, pages, url, doc,
                    anim, elapsed, server, fs, trace, writes, captured, runs, prev >>

\* Time passes while the wait is in progress
Tick ==
    /\ pc = "body"
    /\ WaitOp(variant) \in inflight
    /\ elapsed < WaitMs(variant)
    /\ elapsed' = Min(elapsed + TickMs, WaitMs(variant))
    /\ UNCHANGED << variant, pc, ip, inflight, exc, exitStatus, driver, browsers,
                    pages, url, doc, anim, scrollY, server, fs, trace, writes, captured,
                    runs, prev >>

\* asyncio.sleep(2)
sleep ==
    /\ WaitDone
    /\ Return("sleep")
    /\ UNCHANGED << variant, exitStatus, driver, browsers, pages, url, doc,
                    anim, scrollY, elapsed, server, fs, trace, writes, captured, runs,
                    prev >>

\* page.wait_for_timeout(5000)
wait_for_timeout ==
    /\ \/ WaitDone /\ Return("wait_for_timeout")
       \/ Raise("wait_for_timeout")
    /\ UNCHANGED << variant, exitStatus, driver, browsers, pages, url, doc,
                    anim, scrollY, elapsed, server, fs, trace, writes, captured, runs,
                    prev >>

\* page.screenshot(path=...): capture the viewport, then write the file
screenshot ==
    /\ \/ /\ Return("screenshot")
          /\ fs' = [fs EXCEPT ![WriteTarget(variant)] = Image(doc, scrollY, anim)]
          /\ writes' = Append(writes, WriteTarget(variant))
          /\ captured' = [taken |-> TRUE, doc |-> doc, anim |-> anim]
       \/ /\ Raise("screenshot")
          /\ UNCHANGED << fs, writes, captured >>
       \/ /\ Raise("screenshot")
          /\ fs' = [fs EXCEPT ![WriteTarget(variant)] = Truncated]
          /\ writes' = Append(writes, WriteTarget(variant))
          /\ captured' = captured
    /\ UNCHANGED << variant, exitStatus, driver, browsers, pages, url, doc,
                    anim, scrollY, elapsed, server, trace, runs, prev >>

\* browser.close()
close ==
    /\ \/ /\ Return("close")
          /\ browsers' = Max(0, browsers - 1)
          /\ pages' = 0
       \/ /\ Raise("close")
          /\ UNCHANGED << browsers, pages >>
    /\ UNCHANGED << variant, exitStatus, driver, url, doc, anim, scrollY,
                    elapsed, server, fs, trace, writes, captured, runs, prev >>

\* Leaving the with-block stops playwright; then the interpreter exits
ContextExit ==
    /\ pc = "exit"
    /\ driver' = FALSE
    /\ browsers' = StopDriver(browsers)
    /\ pages' = IF StopDriver(browsers) = 0 THEN 0 ELSE pages
    /\ inflight' = {}
    /\ exitStatus' = ExitCode
    /\ pc' = "done"
    /\ UNCHANGED << variant, ip, exc, url, doc, anim, scrollY, elapsed, server,
                    fs, trace, writes, captured, runs, prev >>

\* The page's animation runs to completion on its own schedule
AnimationCompletes ==
    /\ pages > 0
    /\ url = TargetUrl
    /\ ~anim
    /\ anim' = TRUE
    /\ UNCHANGED << variant, pc, ip, inflight, exc, exitStatus, driver, browsers,
                    pages, url, doc, scrollY, elapsed, server, fs, trace, writes, captured,
                    runs, prev >>

\* A script is run again: a fresh process on the filesystem the last one left
Rerun ==
    /\ pc = "done"
    /\ runs < MaxRuns
    /\ variant' \in Variants
    /\ server' \in BOOLEAN
    /\ prev' = [variant |-> variant, ok |-> exitStatus = 0, fs |-> fs,
                captured |-> captured]
    /\ runs' = runs + 1
    /\ pc' = "enter"
    /\ ip' = 1
    /\ inflight' = {}
    /\ exc' = "none"
    /\ exitStatus' = -1
    /\ url' = BlankUrl
    /\ doc' = << >>
    /\ anim' = FALSE
    /\ scrollY' = 0
    /\ elapsed' = 0
    /\ trace' = << >>
    /\ writes' = << >>
    /\ captured' = NoShot
    /\ UNCHANGED << driver, browsers, pages, fs >>

Step ==
    \/ Enter
    \/ Issue
    \/ launch
    \/ new_page
    \/ goto
    \/ evaluate
    \/ Tick
    \/ sleep
    \/ wait_for_timeout
    \/ screenshot
    \/ close
    \/ ContextExit

Next ==
    \/ Step
    \/ AnimationCompletes
    \/ Rerun

Spec == Init /\ [][Next]_vars

\* Every library call returns or raises (each has a timeout) and timers fire
FairSpec == Spec /\ WF_vars(Step)

----------------------------------------------------------------------------
(* Vocabulary of the properties *)

Issued(op) == \E i \in DOMAIN trace : trace[i] = op

IsPrefix(t, u) == Len(t) <= Len(u) /\ t = SubSeq(u, 1, Len(t))

Terminated == pc = "done"

Succeeded == pc = "done" /\ exitStatus = 0

OutFile == fs[OutputPath(variant)]

\* The offset the page is left at by the variant's scroll step, if it has one
SettledScroll == IF variant = "async" THEN Min(ScrollTarget, MaxScroll(doc)) ELSE 0

----------------------------------------------------------------------------
\* C1: whenever a process has terminated, on any exit path (normal completion
\* or a failure of new_page, goto, evaluate, the wait, screenshot or close after
\* a successful launch), no browser, page or driver is left running.
C1_BrowserReleased ==
    Terminated => browsers = 0 /\ pages = 0 /\ ~driver

\* A run whose launch succeeded and whose navigation then failed has terminated.
C1_Witness ==
    /\ Terminated
    /\ exc = "goto"
    /\ Issued("launch")

\* C2: with no server reachable, nothing after goto is issued, the process
\* writes no file and leaves the filesystem as it found it, and a run that got
\* as far as goto ends with the navigation error and exit status 1.
C2_NavigationFailureAborts ==
    ~server =>
        /\ IsPrefix(trace, << "launch", "new_page", "goto" >>)
        /\ writes = << >>
        /\ fs = prev.fs
        /\ (Terminated /\ Issued("goto") => exc = "goto" /\ exitStatus = 1)

\* A second run of a variant whose first run left its image finds no server and
\* has terminated on the navigation error.
C2_Witness ==
    /\ ~server
    /\ Terminated
    /\ exc = "goto"
    /\ prev.ok
    /\ prev.variant = variant
    /\ OutFile.kind = "png"

\* C3: every started process eventually either has a library call fail or
\* terminates with exit status 0 and a non-empty image at the variant's output
\* path, written by this process.
C3_EventuallySucceeds ==
    (pc = "enter") ~>
        \/ exc # "none"
        \/ /\ Succeeded
           /\ server
           /\ OutFile.kind = "png"
           /\ writes = << OutputPath(variant) >>

\* A process has terminated successfully with its image in place.
C3_Witness ==
    /\ Succeeded
    /\ server
    /\ OutFile.kind = "png"
    /\ writes = << OutputPath(variant) >>

\* C4: the calls are issued in the script's fixed order, and once screenshot
\* has been issued the page shows the target address and exactly the variant's
\* fixed wait (2 s in verify.py, 5000 ms in verify_animation.py) has elapsed,
\* whether or not the page's animation has completed.
C4_FixedOrderFixedWait ==
    /\ IsPrefix(trace, Steps(variant))
    /\ Issued("screenshot") =>
        /\ url = TargetUrl
        /\ elapsed = (IF variant = "async" THEN 2000 ELSE 5000)
        /\ exc \in {"none", "screenshot", "close"}

\* The screenshot was taken after the wait while the animation was still running.
C4_Witness ==
    /\ captured.taken
    /\ ~captured.anim
    /\ elapsed = WaitMs(variant)

\* C5: when a successful run of a variant follows a successful run of the same
\* variant and both rendered the same page state, the filesystem after the
\* second run equals the filesystem after the first.
C5_RerunIdempotent ==
    ( /\ Succeeded
      /\ prev.ok
      /\ prev.variant = variant
      /\ prev.captured = captured ) => fs = prev.fs

\* Two consecutive successful runs of one variant on the same page state.
C5_Witness ==
    /\ Succeeded
    /\ prev.ok
    /\ prev.variant = variant
    /\ prev.captured = captured
    /\ captured.taken
    /\ OutFile.kind = "png"

\* C6: a process opens at most one file for writing, always the variant's fixed
\* path, and exactly one when it succeeds; every other path keeps the file it
\* had when the process started; the page shows only the blank or the target
\* address, the wait never exceeds the variant's duration and the scroll offset
\* is 0 or the one the scroll step settles at.
C6_OneFileFixedPath ==
    /\ Len(writes) <= 1
    /\ \A i \in DOMAIN writes : writes[i] = OutputPath(variant)
    /\ (Succeeded => Len(writes) = 1 /\ OutFile.kind = "png")
    /\ (writes = << >> => fs = prev.fs)
    /\ \A p \in Paths \ {OutputPath(variant)} : fs[p] = prev.fs[p]
    /\ url \in {BlankUrl, TargetUrl}
    /\ elapsed <= WaitMs(variant)
    /\ scrollY \in {0, SettledScroll}

\* The sync variant succeeded where the async variant's image already lay.
C6_Witness ==
    /\ Succeeded
    /\ variant = "sync"
    /\ writes = << OutputPath("sync") >>
    /\ fs[OutputPath("async")].kind = "png"

\* C7: close is issued only after the image has been written; exit status 0
\* occurs only in a terminated process whose every call, close last, returned
\* without raising; and a process that terminates on an exception has exit
\* status 1.
C7_NormalExitOnlyAfterClose ==
    /\ (Issued("close") =>
            writes = << OutputPath(variant) >> /\ OutFile.kind = "png")
    /\ (exitStatus = 0 =>
            /\ Terminated
            /\ trace = Steps(variant)
            /\ exc = "none"
            /\ browsers = 0)
    /\ (Terminated /\ exc # "none" => exitStatus = 1)

\* A process whose capture failed while writing has terminated with status 1.
C7_Witness ==
    /\ Terminated
    /\ exc = "screenshot"
    /\ exitStatus = 1
    /\ OutFile.kind = "truncated"

\* C8 as stated: the scroll variant captures at offset 1000, the other at 0,
\* and the scroll variant's capture differs from the capture at the top
\* whenever the page shows different content at some two scroll offsets.
C8_Original ==
    captured.taken =>
        IF variant = "async"
        THEN /\ scrollY = 1000
             /\ (\E y \in 0..MaxScroll(doc) : Visible(doc, y, 1) # Visible(doc, 0, 1))
                    => OutFile # Image(doc, 0, captured.anim)
        ELSE scrollY = 0

\* C8 (amended): the scroll variant captures at offset min(1000, the page's
\* largest scroll offset), the other at 0; the image written is the viewport
\* at that offset, and the scroll variant's image differs from the capture at
\* the top exactly when the viewport at that offset shows something else.
C8_ScrollClamped ==
    captured.taken =>
        /\ scrollY = SettledScroll
        /\ OutFile.kind = "png"
        /\ OutFile.rows = Visible(captured.doc, SettledScroll, 1)
        /\ (variant = "async" =>
                ( OutFile # Image(doc, 0, captured.anim)
                  <=> Visible(doc, SettledScroll, 1) # Visible(doc, 0, 1) ))

\* The scroll variant captured a page too short to scroll by 1000.
C8_Witness ==
    /\ captured.taken
    /\ variant = "async"
    /\ Len(doc) = 1
    /\ scrollY = RowPx - ViewportPx

\* C9: no call is issued twice in a process, and once a call has raised it is
\* the last call issued: control is outside the body and nothing is in flight.
C9_NoRetry ==
    /\ \A i, j \in DOMAIN trace : i # j => trace[i] # trace[j]
    /\ exc # "none" =>
        /\ trace # << >>
        /\ trace[Len(trace)] = exc
        /\ pc \in {"exit", "done"}
        /\ inflight = {}

\* A launch failure has ended the process with nothing else attempted.
C9_Witness ==
    /\ Terminated
    /\ exc = "launch"
    /\ trace = << "launch" >>

\* C10: at most one browser, one page and one call in flight; the call in
\* flight is the last one issued, and the calls issued are a prefix of the
\* script's sequence, in the async variant as in the sync one.
C10_OneAtATime ==
    /\ browsers <= 1
    /\ pages <= 1
    /\ Cardinality(inflight) <= 1
    /\ IsPrefix(trace, Steps(variant))
    /\ \A op \in inflight : trace # << >> /\ op = trace[Len(trace)]
    /\ (pc # "body" => inflight = {})

\* The async variant is suspended in screenshot with browser and page open.
C10_Witness ==
    /\ variant = "async"
    /\ inflight = {"screenshot"}
    /\ browsers = 1
    /\ pages = 1

====
